---- MODULE Spec2Model ----
(***************************************************************************)
(* A model of the Rust crates of RDN (Rich Data Notation):                 *)
(*   packages/rdn-rust/src/{types,parser,serializer}.rs                    *)
(*   implementations/rust/src/types.rs                                     *)
(*                                                                         *)
(* Rust `String`/`&str` values are sequences of Unicode scalar values      *)
(* (naturals), so that `c as u32`, escaping and hex formatting are         *)
(* computed and not assumed.  A `Result` is a record tagged "Ok" or "Err"; *)
(* a panic (`todo!`) is a record tagged "Panic".  The crates keep no state *)
(* between calls, so a behaviour is one call of the public API: pc goes    *)
(* from "start" to "returned", through "regexp_loop" for RdnRegExp::new,   *)
(* whose scan over the flags is modelled one iteration at a time.          *)
(***************************************************************************)
EXTENDS Integers, Sequences, FiniteSets, TLC

VARIABLES pc, call, ret, i, seen

vars == <<pc, call, ret, i, seen>>

(* ------------------------------------------------------------------ *)
(* Bounds of the model                                                *)
(* ------------------------------------------------------------------ *)
MaxBigIntLen == 3
MaxFlagsLen == 3
MaxStrLen == 2

(* ------------------------------------------------------------------ *)
(* Characters                                                         *)
(* ------------------------------------------------------------------ *)
\* The character literals of the sources, as Unicode scalar values.
Ascii ==
    [ nul |-> 0, soh |-> 1, stx |-> 2, bs |-> 8, tab |-> 9, lf |-> 10,
      ff |-> 12, cr |-> 13, us |-> 31, space |-> 32, quote |-> 34,
      comma |-> 44, minus |-> 45, dot |-> 46, slash |-> 47, zero |-> 48,
      one |-> 49, nine |-> 57, colon |-> 58, eq |-> 61, gt |-> 62,
      backslash |-> 92, lbrace |-> 123, rbrace |-> 125, del |-> 127,
      eacute |-> 233,
      D |-> 68, G |-> 71, I |-> 73, M |-> 77, N |-> 78, P |-> 80, R |-> 82, S |-> 83,
      V |-> 86, lbracket |-> 91, rbracket |-> 93,
      a |-> 97, b |-> 98, c |-> 99, d |-> 100, e |-> 101, f |-> 102, g |-> 103,
      i |-> 105, l |-> 108, m |-> 109, n |-> 110, p |-> 112, r |-> 114,
      s |-> 115, t |-> 116, u |-> 117, v |-> 118, x |-> 120, y |-> 121 ]

\* char::is_ascii_digit
is_ascii_digit(c) == c >= Ascii.zero /\ c <= Ascii.nine

\* All sequences over S of length at most n.
SeqsUpTo(S, n) == UNION { [1..k -> S] : k \in 0..n }

(* ------------------------------------------------------------------ *)
(* Results                                                            *)
(* ------------------------------------------------------------------ *)
Ok(v) == [tag |-> "Ok", val |-> v]
Err(m) == [tag |-> "Err", msg |-> m]
Panic(m) == [tag |-> "Panic", msg |-> m]
NoCall == [fn |-> "none", args |-> <<>>]
NoRet == [tag |-> "None"]
NoSeen == [idx \in 1..8 |-> FALSE]

(* ------------------------------------------------------------------ *)
(* BigInt                                                             *)
(* ------------------------------------------------------------------ *)
\* str::strip_prefix('-'): the rest when the text starts with '-', else the text.
StripMinus(value) ==
    IF Len(value) > 0 /\ Head(value) = Ascii.minus THEN Tail(value) ELSE value

\* A plausible slip: the check for an empty digit string is left out.
BigIntNew_NoDigitsCheck(value) ==
    IF value = <<>> THEN Err("BigInt value must not be empty")
    ELSE LET digits == StripMinus(value) IN
         IF ~ (\A k \in 1..Len(digits) : is_ascii_digit(digits[k]))
         THEN Err("BigInt value contains non-digit characters")
         ELSE Ok([value |-> value])

\* BigInt::new
BigIntNew(value) ==
    IF value = <<>> THEN Err("BigInt value must not be empty")
    ELSE LET digits == StripMinus(value) IN
         IF digits = <<>>
         THEN Err("BigInt value must contain digits after optional sign")
         ELSE IF ~ (\A k \in 1..Len(digits) : is_ascii_digit(digits[k]))
         THEN Err("BigInt value contains non-digit characters")
         ELSE Ok([value |-> value])

\* BigInt::value
BigIntValue(bi) == bi.value

\* The characters the arguments of BigInt::new are drawn from.
BigIntAlphabet ==
    {Ascii.minus, Ascii.zero, Ascii.one, Ascii.nine, Ascii.a, Ascii.dot}

BigIntInputs == SeqsUpTo(BigIntAlphabet, MaxBigIntLen)

(* ------------------------------------------------------------------ *)
(* RdnTimeOnly                                                        *)
(* ------------------------------------------------------------------ *)
\* A plausible slip: an off-by-one in the range check of the hours.
RdnTimeOnlyNew_HoursOffByOne(hours, minutes, seconds, milliseconds) ==
    IF hours > 24 THEN Err("hours must be 0-23")
    ELSE IF minutes > 59 THEN Err("minutes must be 0-59")
    ELSE IF seconds > 59 THEN Err("seconds must be 0-59")
    ELSE IF milliseconds > 999 THEN Err("milliseconds must be 0-999")
    ELSE Ok([hours |-> hours, minutes |-> minutes, seconds |-> seconds,
             milliseconds |-> milliseconds])

\* RdnTimeOnly::new
RdnTimeOnlyNew(hours, minutes, seconds, milliseconds) ==
    IF hours > 23 THEN Err("hours must be 0-23")
    ELSE IF minutes > 59 THEN Err("minutes must be 0-59")
    ELSE IF seconds > 59 THEN Err("seconds must be 0-59")
    ELSE IF milliseconds > 999 THEN Err("milliseconds must be 0-999")
    ELSE Ok([hours |-> hours, minutes |-> minutes, seconds |-> seconds,
             milliseconds |-> milliseconds])

\* The getters of RdnTimeOnly.
TimeOnlyHours(t) == t.hours
TimeOnlyMinutes(t) == t.minutes
TimeOnlySeconds(t) == t.seconds
TimeOnlyMilliseconds(t) == t.milliseconds

\* Arguments of RdnTimeOnly::new: the edges of the ranges and of u8 / u16.
HourInputs == {0, 12, 23, 24, 255}
MinuteInputs == {0, 30, 59, 60, 255}
SecondInputs == {0, 30, 59, 60, 255}
MilliInputs == {0, 500, 999, 1000, 65535}

(* ------------------------------------------------------------------ *)
(* RdnRegExp                                                          *)
(* ------------------------------------------------------------------ *)
\* A plausible slip: the flag v left out of the alphabet.
VALID_FLAGS_WithoutV ==
    <<Ascii.d, Ascii.g, Ascii.i, Ascii.m, Ascii.s, Ascii.u, Ascii.y>>

\* const VALID_FLAGS
VALID_FLAGS ==
    <<Ascii.d, Ascii.g, Ascii.i, Ascii.m, Ascii.s, Ascii.u, Ascii.v, Ascii.y>>

\* VALID_FLAGS.iter().position(|&f| f == ch): the 1-based index of ch, 0 for None.
Position(ch) ==
    IF \E idx \in 1..Len(VALID_FLAGS) : VALID_FLAGS[idx] = ch
    THEN CHOOSE idx \in 1..Len(VALID_FLAGS) : VALID_FLAGS[idx] = ch
    ELSE 0

ErrFlag(m, ch) == [tag |-> "Err", msg |-> m, ch |-> ch]

\* A plausible slip: the flag is checked but never recorded as seen.
LoopBody_NoMark(ch, sn) ==
    LET idx == Position(ch) IN
    IF idx # 0
    THEN IF sn[idx]
         THEN [kind |-> "return", ret |-> ErrFlag("duplicate regex flag", ch)]
         ELSE [kind |-> "continue", seen |-> sn]
    ELSE [kind |-> "return", ret |-> ErrFlag("invalid regex flag", ch)]

\* The body of `for ch in flags.chars()`: either the function returns an
\* error, or the loop goes on with the flag marked.
LoopBody(ch, sn) ==
    LET idx == Position(ch) IN
    IF idx # 0
    THEN IF sn[idx]
         THEN [kind |-> "return", ret |-> ErrFlag("duplicate regex flag", ch)]
         ELSE [kind |-> "continue", seen |-> [sn EXCEPT ![idx] = TRUE]]
    ELSE [kind |-> "return", ret |-> ErrFlag("invalid regex flag", ch)]

\* RdnRegExp { source: source.to_string(), flags: flags.to_string() }
RdnRegExpValue(source, flags) == [source |-> source, flags |-> flags]

\* The getters of RdnRegExp.
RegExpSource(re) == re.source
RegExpFlags(re) == re.flags

\* Arguments of RdnRegExp::new: every short string over the eight flags, an
\* unknown letter and an upper-case letter, and strings of eight and nine.
FlagAlphabet ==
    {Ascii.d, Ascii.g, Ascii.i, Ascii.m, Ascii.s, Ascii.u, Ascii.v, Ascii.y,
     Ascii.x, Ascii.G}

AllEightFlags ==
    <<Ascii.d, Ascii.g, Ascii.i, Ascii.m, Ascii.s, Ascii.u, Ascii.y, Ascii.v>>

FlagsInputs ==
    SeqsUpTo(FlagAlphabet, MaxFlagsLen)
        \cup {AllEightFlags, VALID_FLAGS, AllEightFlags \o <<Ascii.g>>,
              AllEightFlags \o <<Ascii.x>>}

SourceInputs == {<<Ascii.a, Ascii.b, Ascii.c>>, <<Ascii.backslash, Ascii.d>>}

(* ------------------------------------------------------------------ *)
(* RdnValue                                                           *)
(* ------------------------------------------------------------------ *)
\* enum RdnValue: one constructor per variant.
Null == [variant |-> "Null"]
Bool(b) == [variant |-> "Bool", b |-> b]
Number(n) == [variant |-> "Number", n |-> n]
BigIntOf(bi) == [variant |-> "BigInt", bi |-> bi]
String(s) == [variant |-> "String", s |-> s]
Array(items) == [variant |-> "Array", items |-> items]
Object(entries) == [variant |-> "Object", entries |-> entries]
Date(millis) == [variant |-> "Date", millis |-> millis]
TimeOnly(t) == [variant |-> "TimeOnly", t |-> t]
Duration(iso) == [variant |-> "Duration", iso |-> iso]
RegExp(re) == [variant |-> "RegExp", re |-> re]
Binary(bytes) == [variant |-> "Binary", bytes |-> bytes]
Map(entries) == [variant |-> "Map", entries |-> entries]
Set(items) == [variant |-> "Set", items |-> items]

\* An f64: NaN, an infinity, or a finite value given by its sign and the
\* digits of its shortest decimal form (integer part, fraction digits).
F64(class, neg, int, frac) ==
    [class |-> class, neg |-> neg, int |-> int, frac |-> frac]
is_nan(n) == n.class = "nan"
is_infinite(n) == n.class = "inf"
is_sign_positive(n) == ~ n.neg

\* The decimal digits of a natural number, as characters.
RECURSIVE DecDigits(_)
DecDigits(k) ==
    IF k < 10 THEN <<Ascii.zero + k>>
    ELSE DecDigits(k \div 10) \o <<Ascii.zero + (k % 10)>>

\* `{n}` of a finite f64: sign, integer digits, and the fraction if there is one.
FmtF64(n) ==
    (IF n.neg THEN <<Ascii.minus>> ELSE <<>>)
        \o DecDigits(n.int)
        \o (IF n.frac = <<>> THEN <<>>
            ELSE <<Ascii.dot>> \o [k \in 1..Len(n.frac) |-> Ascii.zero + n.frac[k]])

\* `{b}` of a bool.
FmtBool(b) ==
    IF b THEN <<Ascii.t, Ascii.r, Ascii.u, Ascii.e>>
    ELSE <<Ascii.f, Ascii.a, Ascii.l, Ascii.s, Ascii.e>>

\* One lower-case hexadecimal digit.
HexDigit(k) == IF k < 10 THEN Ascii.zero + k ELSE Ascii.a + (k - 10)

\* `{:04x}`: lower-case hexadecimal, zero-padded to four digits.
RECURSIVE HexDigits(_)
HexDigits(k) ==
    IF k < 16 THEN <<HexDigit(k)>>
    ELSE HexDigits(k \div 16) \o <<HexDigit(k % 16)>>

Fmt04x(k) ==
    LET h == HexDigits(k) IN
    IF Len(h) >= 4 THEN h ELSE [j \in 1..(4 - Len(h)) |-> Ascii.zero] \o h

\* One arm of the match in write_escaped_string.
EscapeChar(ch) ==
    IF ch = Ascii.quote THEN <<Ascii.backslash, Ascii.quote>>
    ELSE IF ch = Ascii.backslash THEN <<Ascii.backslash, Ascii.backslash>>
    ELSE IF ch = Ascii.lf THEN <<Ascii.backslash, Ascii.n>>
    ELSE IF ch = Ascii.cr THEN <<Ascii.backslash, Ascii.r>>
    ELSE IF ch = Ascii.tab THEN <<Ascii.backslash, Ascii.t>>
    ELSE IF ch = Ascii.bs THEN <<Ascii.backslash, Ascii.b>>
    ELSE IF ch = Ascii.ff THEN <<Ascii.backslash, Ascii.f>>
    ELSE IF ch < 32 THEN <<Ascii.backslash, Ascii.u>> \o Fmt04x(ch)
    ELSE <<ch>>

\* write_escaped_string: the quote, every character escaped in order, the quote.
RECURSIVE EscapeAll(_)
EscapeAll(s) ==
    IF s = <<>> THEN <<>> ELSE EscapeChar(Head(s)) \o EscapeAll(Tail(s))

write_escaped_string(s) == <<Ascii.quote>> \o EscapeAll(s) \o <<Ascii.quote>>

Text_null == <<Ascii.n, Ascii.u, Ascii.l, Ascii.l>>
Text_NaN == <<Ascii.N, Ascii.a, Ascii.N>>
Text_Infinity ==
    <<Ascii.I, Ascii.n, Ascii.f, Ascii.i, Ascii.n, Ascii.i, Ascii.t, Ascii.y>>
Text_MinusInfinity == <<Ascii.minus>> \o Text_Infinity
\* "[RdnValue]"
Text_Placeholder ==
    <<Ascii.lbracket, Ascii.R, Ascii.d, Ascii.n, Ascii.V, Ascii.a, Ascii.l, Ascii.u,
      Ascii.e, Ascii.rbracket>>

\* A plausible slip: the sign test of the infinities inverted.
FmtNumber_InfinitySwapped(n) ==
    IF is_nan(n) THEN Text_NaN
    ELSE IF is_infinite(n)
    THEN IF is_sign_positive(n) THEN Text_MinusInfinity ELSE Text_Infinity
    ELSE FmtF64(n)

\* The Number arm of Display for RdnValue, the same in both crates.
FmtNumber(n) ==
    IF is_nan(n) THEN Text_NaN
    ELSE IF is_infinite(n)
    THEN IF is_sign_positive(n) THEN Text_Infinity ELSE Text_MinusInfinity
    ELSE FmtF64(n)

\* impl fmt::Display for RdnValue (packages/rdn-rust)
Display(v) ==
    IF v.variant = "Null" THEN Text_null
    ELSE IF v.variant = "Bool" THEN FmtBool(v.b)
    ELSE IF v.variant = "Number" THEN FmtNumber(v.n)
    ELSE IF v.variant = "BigInt" THEN BigIntValue(v.bi) \o <<Ascii.n>>
    ELSE IF v.variant = "String" THEN write_escaped_string(v.s)
    ELSE Text_Placeholder

\* impl fmt::Display for RdnValue (implementations/rust): the String arm
\* is `write!(f, "\"{s}\"")`, the text between two quotes as it is.
DisplayImpl(v) ==
    IF v.variant = "Null" THEN Text_null
    ELSE IF v.variant = "Bool" THEN FmtBool(v.b)
    ELSE IF v.variant = "Number" THEN FmtNumber(v.n)
    ELSE IF v.variant = "BigInt" THEN v.bi.value \o <<Ascii.n>>
    ELSE IF v.variant = "String"
    THEN <<Ascii.quote>> \o v.s \o <<Ascii.quote>>
    ELSE Text_Placeholder

\* parse (parser.rs): the body is `Err("Not implemented".to_string())`.
Parse(input) == Err("Not implemented")

\* stringify (serializer.rs): the body is `todo!("Not implemented")`.
Stringify(value) == Panic("not yet implemented: Not implemented")

(* ------------------------------------------------------------------ *)
(* Values and texts the operations are applied to                     *)
(* ------------------------------------------------------------------ *)
StrAlphabet ==
    {Ascii.quote, Ascii.backslash, Ascii.lf, Ascii.cr, Ascii.tab, Ascii.bs,
     Ascii.ff, Ascii.nul, Ascii.soh, Ascii.stx, Ascii.us, Ascii.space,
     Ascii.a, Ascii.del, Ascii.eacute}

\* The string of tests::display_string_with_multiple_special_chars.
MultipleSpecialChars ==
    <<Ascii.a, Ascii.backslash, Ascii.b, Ascii.lf, Ascii.c, Ascii.tab,
      Ascii.quote, Ascii.d, Ascii.stx, Ascii.cr, Ascii.e>>

StringInputs == SeqsUpTo(StrAlphabet, MaxStrLen) \cup {MultipleSpecialChars}

F64Inputs ==
    {F64("nan", FALSE, 0, <<>>), F64("nan", TRUE, 0, <<>>),
     F64("inf", FALSE, 0, <<>>), F64("inf", TRUE, 0, <<>>),
     F64("finite", FALSE, 0, <<>>), F64("finite", TRUE, 0, <<>>),
     F64("finite", FALSE, 1, <<>>), F64("finite", TRUE, 1, <<>>),
     F64("finite", FALSE, 42, <<>>), F64("finite", FALSE, 1, <<5>>),
     F64("finite", TRUE, 0, <<2, 5>>), F64("finite", FALSE, 1705312200, <<>>)}

\* Every BigInt that exists in packages/rdn-rust was returned by BigInt::new.
ValidBigInts ==
    {BigIntNew(value).val : value \in {x \in BigIntInputs : BigIntNew(x).tag = "Ok"}}

\* In implementations/rust the field is public and there is no constructor.
AnyBigInts == {[value |-> value] : value \in BigIntInputs}

Str_a == <<Ascii.a>>
Str_b == <<Ascii.b>>
F64_One == F64("finite", FALSE, 1, <<>>)

ContainerInputs ==
    {Array(<<>>), Array(<<Null, Number(F64_One)>>), Array(<<Array(<<>>)>>),
     Object(<<>>), Object(<< <<Str_a, Number(F64_One)>> >>),
     Object(<< <<Str_a, Array(<<Set(<<>>)>>)>>, <<Str_a, Null>> >>),
     Map(<<>>), Map(<< <<String(Str_a), Number(F64_One)>> >>),
     Map(<< <<Array(<<Null>>), Map(<<>>)>> >>),
     Set(<<>>), Set(<<String(Str_a), String(Str_b)>>),
     Set(<<Set(<<>>), Object(<<>>)>>)}

OtherInputs ==
    {Date(F64("finite", FALSE, 86400000, <<>>)),
     TimeOnly(RdnTimeOnlyNew(23, 59, 59, 999).val),
     Duration(<<Ascii.P, Ascii.one, Ascii.D>>),
     RegExp(RdnRegExpValue(<<Ascii.a>>, <<Ascii.g, Ascii.i>>)),
     Binary(<<0, 255>>)}

ScalarInputs ==
    {Null, Bool(TRUE), Bool(FALSE)}
        \cup {Number(n) : n \in F64Inputs}
        \cup {String(str) : str \in StringInputs}

\* The values of packages/rdn-rust: all of them finite trees, since every
\* container owns its children.
ValueInputs ==
    ScalarInputs \cup {BigIntOf(bi) : bi \in ValidBigInts}
        \cup ContainerInputs \cup OtherInputs

\* The values of implementations/rust.
ImplValueInputs ==
    ScalarInputs \cup {BigIntOf(bi) : bi \in AnyBigInts}
        \cup ContainerInputs

\* The brace literals of the crate documentation, and the values they denote.
Text_EmptyObject == <<Ascii.lbrace, Ascii.rbrace>>
Text_Object ==
    <<Ascii.lbrace, Ascii.quote, Ascii.a, Ascii.quote, Ascii.colon, Ascii.one,
      Ascii.rbrace>>
Text_BareMap ==
    <<Ascii.lbrace, Ascii.quote, Ascii.a, Ascii.quote, Ascii.eq, Ascii.gt,
      Ascii.one, Ascii.rbrace>>
Text_BareSet ==
    <<Ascii.lbrace, Ascii.quote, Ascii.a, Ascii.quote, Ascii.comma,
      Ascii.quote, Ascii.b, Ascii.quote, Ascii.rbrace>>
Text_EmptyMap == <<Ascii.M, Ascii.a, Ascii.p, Ascii.lbrace, Ascii.rbrace>>
Text_EmptySet == <<Ascii.S, Ascii.e, Ascii.t, Ascii.lbrace, Ascii.rbrace>>

BraceCases ==
    {[text |-> Text_EmptyObject, value |-> Object(<<>>)],
     [text |-> Text_Object, value |-> Object(<< <<Str_a, Number(F64_One)>> >>)],
     [text |-> Text_BareMap,
      value |-> Map(<< <<String(Str_a), Number(F64_One)>> >>)],
     [text |-> Text_BareSet, value |-> Set(<<String(Str_a), String(Str_b)>>)],
     [text |-> Text_EmptyMap, value |-> Map(<<>>)],
     [text |-> Text_EmptySet, value |-> Set(<<>>)]}

\* Inputs of parse: the brace literals, the scalar texts Display emits, the
\* empty text and malformed texts.
ParseInputs ==
    {c.text : c \in BraceCases}
        \cup {Display(v) : v \in {Null, Bool(TRUE), Bool(FALSE)}}
        \cup {Display(Number(n)) : n \in F64Inputs}
        \cup {<<>>, <<Ascii.lbrace>>, <<Ascii.rbrace>>, <<Ascii.x>>}

(* ------------------------------------------------------------------ *)
(* Operations                                                         *)
(* ------------------------------------------------------------------ *)
Init ==
    /\ pc = "start"
    /\ call = NoCall
    /\ ret = NoRet
    /\ i = 0
    /\ seen = NoSeen

\* A caller evaluates BigInt::new(value).
CallBigIntNew ==
    /\ pc = "start"
    /\ \E value \in BigIntInputs :
         /\ call' = [fn |-> "BigInt::new", args |-> <<value>>]
         /\ ret' = BigIntNew(value)
    /\ pc' = "returned"
    /\ UNCHANGED <<i, seen>>

\* A caller evaluates RdnTimeOnly::new(hours, minutes, seconds, milliseconds).
CallRdnTimeOnlyNew ==
    /\ pc = "start"
    /\ \E hours \in HourInputs, minutes \in MinuteInputs,
          seconds \in SecondInputs, milliseconds \in MilliInputs :
         /\ call' = [fn |-> "RdnTimeOnly::new",
                     args |-> <<hours, minutes, seconds, milliseconds>>]
         /\ ret' = RdnTimeOnlyNew(hours, minutes, seconds, milliseconds)
    /\ pc' = "returned"
    /\ UNCHANGED <<i, seen>>

\* RdnRegExp::new(source, flags) is entered: `let mut seen = [false; 8]`.
CallRdnRegExpNew ==
    /\ pc = "start"
    /\ \E source \in SourceInputs, flags \in FlagsInputs :
         call' = [fn |-> "RdnRegExp::new", args |-> <<source, flags>>]
    /\ pc' = "regexp_loop"
    /\ i' = 0
    /\ seen' = NoSeen
    /\ UNCHANGED ret

\* One iteration of the loop over flags.chars(); i characters are scanned.
RegExpLoopIter ==
    /\ pc = "regexp_loop"
    /\ i < Len(call.args[2])
    /\ LET step == LoopBody(call.args[2][i + 1], seen) IN
       IF step.kind = "return"
       THEN /\ ret' = step.ret
            /\ pc' = "returned"
            /\ UNCHANGED <<i, seen>>
       ELSE /\ seen' = step.seen
            /\ i' = i + 1
            /\ UNCHANGED <<pc, ret>>
    /\ UNCHANGED call

\* The loop is over: RdnRegExp::new returns Ok.
RegExpLoopExit ==
    /\ pc = "regexp_loop"
    /\ i = Len(call.args[2])
    /\ ret' = Ok(RdnRegExpValue(call.args[1], call.args[2]))
    /\ pc' = "returned"
    /\ UNCHANGED <<call, i, seen>>

\* A caller formats a value of packages/rdn-rust: value.to_string().
CallDisplay ==
    /\ pc = "start"
    /\ \E value \in ValueInputs :
         /\ call' = [fn |-> "rdn::RdnValue::to_string", args |-> <<value>>]
         /\ ret' = [tag |-> "Text", val |-> Display(value)]
    /\ pc' = "returned"
    /\ UNCHANGED <<i, seen>>

\* A caller formats a value of implementations/rust: value.to_string().
CallDisplayImpl ==
    /\ pc = "start"
    /\ \E value \in ImplValueInputs :
         /\ call' = [fn |-> "impl::RdnValue::to_string", args |-> <<value>>]
         /\ ret' = [tag |-> "Text", val |-> DisplayImpl(value)]
    /\ pc' = "returned"
    /\ UNCHANGED <<i, seen>>

\* A caller evaluates parse(input).
CallParse ==
    /\ pc = "start"
    /\ \E input \in ParseInputs :
         /\ call' = [fn |-> "parse", args |-> <<input>>]
         /\ ret' = Parse(input)
    /\ pc' = "returned"
    /\ UNCHANGED <<i, seen>>

\* A caller evaluates stringify(&value): the call returns a String, or the
\* thread unwinds with a panic.
CallStringify ==
    /\ pc = "start"
    /\ \E value \in ValueInputs :
         /\ call' = [fn |-> "stringify", args |-> <<value>>]
         /\ ret' = Stringify(value)
         /\ pc' = IF Stringify(value).tag = "Panic" THEN "panicked" ELSE "returned"
    /\ UNCHANGED <<i, seen>>

Next ==
    \/ CallBigIntNew
    \/ CallRdnTimeOnlyNew
    \/ CallRdnRegExpNew
    \/ RegExpLoopIter
    \/ RegExpLoopExit
    \/ CallDisplay
    \/ CallDisplayImpl
    \/ CallParse
    \/ CallStringify

Spec == Init /\ [][Next]_vars

(* ------------------------------------------------------------------ *)
(* Properties                                                         *)
(* ------------------------------------------------------------------ *)
Returned(fn) == pc = "returned" /\ call.fn = fn
Ended(fn) == pc \in {"returned", "panicked"} /\ call.fn = fn

IsDigits(t) ==
    Len(t) >= 1 /\ \A k \in 1..Len(t) : t[k] \in 48..57

\* C1: round trip. Whenever stringify(v) has ended, it has produced a text,
\* and parse of that text is Ok(v), structurally equal to v.
C1_RoundTrip ==
    Ended("stringify") =>
        /\ ret.tag = "Text"
        /\ Parse(ret.val) = Ok(call.args[1])

\* C2: brace disambiguation. parse of each brace literal of the crate
\* documentation returns Ok of the variant the literal denotes: {} an empty
\* Object, {"a":1} an Object, {"a"=>1} a Map, {"a","b"} a Set, Map{} an
\* empty Map and Set{} an empty Set.
C2_BraceDisambiguation ==
    Returned("parse") =>
        \A c \in BraceCases : call.args[1] = c.text => ret = Ok(c.value)

\* C4: every failure is a result value. parse ends by returning Ok or Err,
\* and stringify, whose inputs are all acyclic, ends by returning a text; no
\* call ends in a panic.
C4_ExplicitResults ==
    /\ Ended("parse") => pc = "returned" /\ ret.tag \in {"Ok", "Err"}
    /\ Ended("stringify") => pc = "returned" /\ ret.tag = "Text"

\* An optional single leading '-', then one or more ASCII digits.
ValidBigIntText(t) ==
    \E k \in {0, 1} :
        /\ Len(t) > k
        /\ k = 1 => t[1] = 45
        /\ IsDigits(SubSeq(t, k + 1, Len(t)))

\* C5: BigInt::new(s) returns Ok exactly when s is an optional single
\* leading '-' followed by one or more ASCII digits, and Err otherwise; on Ok,
\* value() returns s unchanged.
C5_BigIntValidation ==
    Returned("BigInt::new") =>
        /\ ret.tag \in {"Ok", "Err"}
        /\ ret.tag = "Ok" <=> ValidBigIntText(call.args[1])
        /\ ret.tag = "Ok" => BigIntValue(ret.val) = call.args[1]

\* BigInt::new("-01") has returned Ok: a sign and a leading zero are kept.
C5_Witness ==
    /\ Returned("BigInt::new")
    /\ call.args[1] = <<45, 48, 49>>
    /\ ret.tag = "Ok"
    /\ BigIntValue(ret.val) = <<45, 48, 49>>

\* C6: RdnTimeOnly::new returns Ok exactly when hours <= 23, minutes <= 59,
\* seconds <= 59 and milliseconds <= 999, and Err otherwise; on Ok the four
\* getters return the four arguments, so the value's fields are in range.
C6_TimeOnlyBoundary ==
    Returned("RdnTimeOnly::new") =>
        LET a == call.args IN
        /\ ret.tag \in {"Ok", "Err"}
        /\ ret.tag = "Ok" <=> (a[1] <= 23 /\ a[2] <= 59 /\ a[3] <= 59 /\ a[4] <= 999)
        /\ ret.tag = "Ok" =>
             /\ TimeOnlyHours(ret.val) = a[1]
             /\ TimeOnlyMinutes(ret.val) = a[2]
             /\ TimeOnlySeconds(ret.val) = a[3]
             /\ TimeOnlyMilliseconds(ret.val) = a[4]
             /\ TimeOnlyHours(ret.val) \in 0..23
             /\ TimeOnlyMinutes(ret.val) \in 0..59
             /\ TimeOnlySeconds(ret.val) \in 0..59
             /\ TimeOnlyMilliseconds(ret.val) \in 0..999

\* RdnTimeOnly::new(23, 59, 59, 999) has returned Ok with these four fields.
C6_Witness ==
    /\ Returned("RdnTimeOnly::new")
    /\ call.args = <<23, 59, 59, 999>>
    /\ ret.tag = "Ok"
    /\ TimeOnlyHours(ret.val) = 23
    /\ TimeOnlyMilliseconds(ret.val) = 999

\* The flags d, g, i, m, s, u, v, y.
FlagLetters == {100, 103, 105, 109, 115, 117, 118, 121}

\* Every character is a flag letter and none occurs twice.
ValidFlagsText(t) ==
    /\ \A k \in 1..Len(t) : t[k] \in FlagLetters
    /\ \A j, k \in 1..Len(t) : j # k => t[j] # t[k]

\* C7: RdnRegExp::new returns Ok exactly when every flag character is one of
\* d, g, i, m, s, u, v, y and none occurs more than once, and Err otherwise;
\* on Ok, source() and flags() return the arguments unchanged.
C7_RegExpFlags ==
    Returned("RdnRegExp::new") =>
        /\ ret.tag \in {"Ok", "Err"}
        /\ ret.tag = "Ok" <=> ValidFlagsText(call.args[2])
        /\ ret.tag = "Ok" =>
             /\ RegExpSource(ret.val) = call.args[1]
             /\ RegExpFlags(ret.val) = call.args[2]

\* RdnRegExp::new(_, "dgimsuyv") has returned Ok with the flags in the order
\* given, which is not the sorted order.
C7_Witness ==
    /\ Returned("RdnRegExp::new")
    /\ call.args[2] = <<100, 103, 105, 109, 115, 117, 121, 118>>
    /\ ret.tag = "Ok"
    /\ RegExpFlags(ret.val) = <<100, 103, 105, 109, 115, 117, 121, 118>>

\* The texts the string-escaping table allows for one character: the named
\* escapes, \u00XX (either case of the hex digits) for any other character
\* below 0x20, and the character itself otherwise.
HexChars(k) == IF k < 10 THEN {48 + k} ELSE {97 + (k - 10), 65 + (k - 10)}

EscapePieces(ch) ==
    IF ch = 34 THEN {<<92, 34>>}
    ELSE IF ch = 92 THEN {<<92, 92>>}
    ELSE IF ch = 10 THEN {<<92, 110>>}
    ELSE IF ch = 13 THEN {<<92, 114>>}
    ELSE IF ch = 9 THEN {<<92, 116>>}
    ELSE IF ch = 8 THEN {<<92, 98>>}
    ELSE IF ch = 12 THEN {<<92, 102>>}
    ELSE IF ch < 32
    THEN {<<92, 117, 48, 48, hi, lo>> :
             hi \in HexChars(ch \div 16), lo \in HexChars(ch % 16)}
    ELSE {<<ch>>}

\* body is, piece by piece and in order, the escaped form of str.
RECURSIVE EscapedAs(_, _)
EscapedAs(body, str) ==
    IF str = <<>> THEN body = <<>>
    ELSE \E piece \in EscapePieces(Head(str)) :
            /\ Len(piece) <= Len(body)
            /\ SubSeq(body, 1, Len(piece)) = piece
            /\ EscapedAs(SubSeq(body, Len(piece) + 1, Len(body)), Tail(str))

\* No quote stands in body outside an escape sequence.
RECURSIVE NoBareQuote(_)
NoBareQuote(body) ==
    IF body = <<>> THEN TRUE
    ELSE IF Head(body) = 92
    THEN Len(body) >= 2 /\ NoBareQuote(SubSeq(body, 3, Len(body)))
    ELSE Head(body) # 34 /\ NoBareQuote(Tail(body))

\* The text is a quote, the escaped form of str, and a quote, with no bare
\* quote and no character below 0x20 in between.
IsEscapedString(text, str) ==
    /\ Len(text) >= 2
    /\ text[1] = 34
    /\ text[Len(text)] = 34
    /\ LET body == SubSeq(text, 2, Len(text) - 1) IN
       /\ EscapedAs(body, str)
       /\ NoBareQuote(body)
       /\ \A k \in 1..Len(body) : body[k] >= 32

\* C8: string escaping. The text emitted for RdnValue::String(s), in either
\* crate, is a quote, the characters of s in order, each escaped by the
\* table (\" \\ \n \r \t \b \f, \u00XX below 0x20, itself otherwise), and a
\* quote; no bare quote or control character stands between the delimiters.
C8_StringEscaping ==
    (Returned("rdn::RdnValue::to_string") \/ Returned("impl::RdnValue::to_string")) =>
        (call.args[1].variant = "String" =>
            IsEscapedString(ret.val, call.args[1].s))

\* The same statement of the packages/rdn-rust crate alone, whose Display
\* goes through write_escaped_string.
StringEscaping_RdnRust ==
    Returned("rdn::RdnValue::to_string") =>
        (call.args[1].variant = "String" =>
            IsEscapedString(ret.val, call.args[1].s))

\* An optional '-', digits, and optionally a '.' and digits.
IsNumericLiteral(t) ==
    LET u == IF Len(t) > 0 /\ t[1] = 45 THEN Tail(t) ELSE t IN
    \/ IsDigits(u)
    \/ \E q \in 2..(Len(u) - 1) :
          /\ u[q] = 46
          /\ IsDigits(SubSeq(u, 1, q - 1))
          /\ IsDigits(SubSeq(u, q + 1, Len(u)))

\* C9: scalar canonical text, in either crate. A Number emits NaN exactly
\* when it is NaN, Infinity exactly when it is the positive infinity,
\* -Infinity exactly when it is the negative infinity, and a numeric literal
\* exactly when it is finite; Null emits null, a Bool true or false, and a
\* BigInt its stored digits, sign kept, followed by n.
C9_ScalarCanonicalText ==
    (Returned("rdn::RdnValue::to_string") \/ Returned("impl::RdnValue::to_string")) =>
        LET v == call.args[1]
            text == ret.val
        IN  /\ v.variant = "Null" => text = <<110, 117, 108, 108>>
            /\ v.variant = "Bool" =>
                 text = IF v.b THEN <<116, 114, 117, 101>>
                        ELSE <<102, 97, 108, 115, 101>>
            /\ v.variant = "Number" =>
                 /\ text = <<78, 97, 78>> <=> v.n.class = "nan"
                 /\ text = <<73, 110, 102, 105, 110, 105, 116, 121>>
                      <=> (v.n.class = "inf" /\ ~ v.n.neg)
                 /\ text = <<45, 73, 110, 102, 105, 110, 105, 116, 121>>
                      <=> (v.n.class = "inf" /\ v.n.neg)
                 /\ IsNumericLiteral(text) <=> v.n.class = "finite"
            /\ v.variant = "BigInt" => text = v.bi.value \o <<110>>

\* The negative infinity has been formatted, as -Infinity.
C9_Witness ==
    /\ Returned("rdn::RdnValue::to_string")
    /\ call.args[1].variant = "Number"
    /\ call.args[1].n.class = "inf"
    /\ call.args[1].n.neg
    /\ ret.val = <<45, 73, 110, 102, 105, 110, 105, 116, 121>>

\* The alphabet in the order of the seen array: d, g, i, m, s, u, v, y.
FlagOrder == <<100, 103, 105, 109, 115, 117, 118, 121>>

\* C10: in RdnRegExp::new, before each character is examined, seen[idx] is
\* true exactly when the idx-th flag of d, g, i, m, s, u, v, y occurs in the
\* prefix already scanned. The scan returns at the first offending character:
\* the prefix before it is valid, the error is `duplicate regex flag` if the
\* character is a flag of the prefix and `invalid regex flag` if it is
\* outside the alphabet, and the result is an Err, not a value. Ok is
\* returned only once the whole string is scanned.
C10_RegExpScan ==
    call.fn = "RdnRegExp::new" =>
        LET flags == call.args[2] IN
        /\ i \in 0..Len(flags)
        /\ \A idx \in 1..8 :
              seen[idx] <=> \E k \in 1..i : flags[k] = FlagOrder[idx]
        /\ (pc = "returned" /\ ret.tag = "Ok") => i = Len(flags)
        /\ (pc = "returned" /\ ret.tag # "Ok") =>
              /\ ret.tag = "Err"
              /\ i < Len(flags)
              /\ ValidFlagsText(SubSeq(flags, 1, i))
              /\ ret.ch = flags[i + 1]
              /\ \/ /\ ret.msg = "duplicate regex flag"
                    /\ flags[i + 1] \in FlagLetters
                    /\ \E k \in 1..i : flags[k] = flags[i + 1]
                 \/ /\ ret.msg = "invalid regex flag"
                    /\ flags[i + 1] \notin FlagLetters

\* RdnRegExp::new(_, "ggx") has returned `duplicate regex flag: g` at the
\* second character, with g marked and x never examined.
C10_Witness ==
    /\ Returned("RdnRegExp::new")
    /\ call.args[2] = <<103, 103, 120>>
    /\ ret.tag = "Err"
    /\ ret.msg = "duplicate regex flag"
    /\ ret.ch = 103
    /\ i = 1
    /\ seen[2]

====
